---- MODULE Spec2Model ----
(***************************************************************************)
(* Model of net-empregos.py: the job crawler's configuration loader, its   *)
(* pickle cache, its rate limiter, the fetch pipeline (cache, HTTP with    *)
(* retries, HTML parsing), the search filter, and the Tk user interface    *)
(* with its refresh workers and its auto-refresh timer.                    *)
(***************************************************************************)
EXTENDS Integers, Sequences, FiniteSets, TLC

\* ------------------------------------------------------------------ bounds
MaxClock == 3          \* the wall clock runs from Epoch to MaxClock
MaxDelay == 1          \* request_delay (min_delay) ranges over 0..MaxDelay
MaxDuration == 2       \* cache_duration ranges over 0..MaxDuration
NumThreads == 2        \* threads calling RateLimiter.wait() concurrently
MaxCalls == 3          \* wait() calls of one behaviour of the limiter alone
MaxFetches == 2        \* fetches of one behaviour
MaxNodes == 2          \* child nodes of one job container
MaxContainers == 2     \* job containers of one document
MaxJobs == 2           \* records of the canonical list in the filter model

\* time.time() is seconds since 1970: far more than any request_delay.
Epoch == MaxDelay

Threads == 1 .. NumThreads

\* Python's None and a present value, kept apart from the empty list.
None == [some |-> FALSE, jobs |-> <<>>]
Some(jobs) == [some |-> TRUE, jobs |-> jobs]

\* Python truthiness of "None or a list": None and [] are both false.
Truthy(v) == v.some /\ v.jobs # <<>>

\* ------------------------------------------------------ HTML documents
\* A document is the sequence of its div.job-item containers; a container
\* is the sequence of its child nodes, in document order.
H2(text) == [tag |-> "h2", attr |-> "", text |-> text, href |-> ""]
H2Link(text, href) == [tag |-> "h2", attr |-> "oferta-link", text |-> text, href |-> href]
Icon(cls) == [tag |-> "i", attr |-> cls, text |-> "", href |-> ""]
Text(s) == [tag |-> "text", attr |-> "", text |-> s, href |-> ""]
Li(style, text) == [tag |-> "li", attr |-> style, text |-> text, href |-> ""]

base_url == "https://www.net-empregos.com"

\* str.strip() on the texts the documents below use.
Strip(s) ==
  CASE s = " " -> ""
    [] s = " 01-01 " -> "01-01"
    [] OTHER -> s

\* The NavigableStrings of a node: an element with no text has none.
HasString(node) == node.tag # "i" /\ node.text # ""

\* The first string at or after position (c, k), in document order.
NoString == [some |-> FALSE, text |-> ""]
SomeString(s) == [some |-> TRUE, text |-> s]

RECURSIVE NextString(_, _, _)
NextString(doc, c, k) ==
  IF c > Len(doc) THEN NoString
  ELSE IF k > Len(doc[c]) THEN NextString(doc, c + 1, 1)
  ELSE IF HasString(doc[c][k]) THEN SomeString(doc[c][k].text)
  ELSE NextString(doc, c, k + 1)

\* icon_tag.find_next(string=True): the first string after the icon in the
\* WHOLE document, not only in the icon's container.
FindNextString(doc, c, k) == NextString(doc, c, k)

\* Tag.get_text(strip=True) of a container: its stripped strings, joined.
RECURSIVE GetText(_, _)
GetText(item, k) ==
  IF k > Len(item) THEN ""
  ELSE (IF HasString(item[k]) THEN Strip(item[k].text) ELSE "") \o GetText(item, k + 1)

\* item.find(tag, ...): the index of the first child that matches, 0 if none.
RECURSIVE FindFrom(_, _, _, _)
FindFrom(item, k, tag, attr) ==
  IF k > Len(item) THEN 0
  ELSE IF item[k].tag = tag /\ (attr = "*" \/ item[k].attr = attr) THEN k
  ELSE FindFrom(item, k + 1, tag, attr)

Find(item, tag, attr) == FindFrom(item, 1, tag, attr)

extract_field_by_icon(doc, c, icon_class) ==
  LET item == doc[c]
      icon_tag == Find(item, "i", icon_class)
  IN  IF icon_tag # 0
      THEN LET next_text == FindNextString(doc, c, icon_tag + 1)
               text == GetText(item, 1)
           IN  IF next_text.some THEN Strip(next_text.text)
               ELSE IF text # "" THEN text ELSE "N/A"
      ELSE "N/A"

\* The first li whose text is longer than 2 characters, 0 if none.
RECURSIVE FirstLongLi(_, _)
FirstLongLi(item, k) ==
  IF k > Len(item) THEN 0
  ELSE IF item[k].tag = "li" /\ Len(Strip(item[k].text)) > 2 THEN k
  ELSE FirstLongLi(item, k + 1)

extract_employer(item) ==
  LET employer_tag == Find(item, "li", "font-weight:bold")
      elem == FirstLongLi(item, 1)
  IN  IF employer_tag # 0 THEN Strip(item[employer_tag].text)
      ELSE IF elem # 0 THEN Strip(item[elem].text)
      ELSE "N/A"

NoJob == [some |-> FALSE, job |-> [title |-> "", url |-> "", date |-> "", location |-> "", employer |-> ""]]

parse_job_item(doc, c) ==
  LET item == doc[c]
      title_tag == Find(item, "h2", "*")
  IN  IF title_tag = 0 THEN NoJob
      ELSE LET h2 == item[title_tag]
           IN  [some |-> TRUE,
                job |-> [title |-> Strip(h2.text),
                         url |-> IF h2.attr = "oferta-link" /\ h2.href # ""
                                 THEN base_url \o h2.href ELSE "N/A",
                         date |-> extract_field_by_icon(doc, c, "flaticon-calendar"),
                         location |-> extract_field_by_icon(doc, c, "flaticon-pin"),
                         employer |-> extract_employer(item)]]

\* The loop of fetch_latest_jobs over job_items: None results are skipped.
RECURSIVE ParseItems(_, _)
ParseItems(doc, c) ==
  IF c > Len(doc) THEN <<>>
  ELSE LET job == parse_job_item(doc, c)
       IN  (IF job.some THEN <<job.job>> ELSE <<>>) \o ParseItems(doc, c + 1)

\* Bodies the listing URL answers with: no container, a container with no
\* h2, one posting, two postings.
Posting(title) == <<H2Link(title, "/job"), Icon("flaticon-calendar"), Text(" 01-01 ")>>
Bodies ==
  { <<>>,
    << <<Text("ad")>> >>,
    << Posting("A") >>,
    << Posting("A"), <<H2("B"), Li("font-weight:bold", "Acme")>> >> }

\* ------------------------------------------------------------ exceptions
\* The classes an exception is an instance of.
Bases(exc) ==
  CASE exc = "UnpicklingError" -> {"UnpicklingError", "PickleError", "Exception"}
    [] exc = "EOFError" -> {"EOFError", "Exception"}
    [] exc = "AttributeError" -> {"AttributeError", "Exception"}
    [] exc = "ModuleNotFoundError" -> {"ModuleNotFoundError", "ImportError", "Exception"}
    [] exc = "TypeError" -> {"TypeError", "Exception"}
    [] exc = "FileNotFoundError" -> {"FileNotFoundError", "OSError", "Exception"}
    [] exc = "JSONDecodeError" -> {"JSONDecodeError", "ValueError", "Exception"}
    [] exc = "ConnectionError" -> {"ConnectionError", "RequestException", "OSError", "Exception"}
    [] exc = "ReadTimeout" -> {"ReadTimeout", "Timeout", "RequestException", "OSError", "Exception"}
    [] exc = "RetryError" -> {"RetryError", "RequestException", "OSError", "Exception"}
    [] exc = "HTTPError" -> {"HTTPError", "RequestException", "OSError", "Exception"}
    [] OTHER -> {}

\* "except (A, B):" catches exc.
Catches(classes, exc) == Bases(exc) \cap classes # {}

\* ------------------------------------------------------------------ state
VARIABLES
  clock,          \* the wall clock: time.time() and datetime.now()
  min_delay,      \* RateLimiter.min_delay
  last_request,   \* RateLimiter.last_request
  lock,           \* RateLimiter.lock: the thread holding it, 0 when free
  pc,             \* where each thread is
  wake,           \* when a sleeping thread's time.sleep() may return
  caller,         \* who called wait(): "fetch" or "wait"
  prev_request,   \* history: the value last_request had before the last write
  calls,          \* history: how many times last_request was written
  cache_file,     \* the contents of job_cache.pkl
  cache_duration, \* JobCache.cache_duration
  cached_jobs,    \* fetch_latest_jobs' local cached_jobs
  attempts,       \* HTTP requests sent by the current session.get()
  response,       \* the body of the response of the current session.get()
  status,         \* its status code, 0 while there is no response
  transients,     \* history: the transient failures of the current session.get()
  ret,            \* what the last fetch_latest_jobs returned
  raised,         \* whether an exception left the last fetch_latest_jobs
  failures,       \* history: what failed during the current fetch
  putArgs,        \* history: the records the current fetch gave cache_jobs, if it called it
  lastGet,        \* history: the last get_cached_jobs call
  lastPut,        \* history: the last cache_jobs call, while its entry stands
  lastClear,      \* history: the last clear_cache call, while nothing was put
  current_jobs,   \* JobCrawler.current_jobs: a reference to a list
  filtered_jobs,  \* JobCrawler.filtered_jobs: a reference to a list
  lists,          \* the list objects the two references point to
  search_var,     \* the text of the search box
  document,       \* the document handed to the parser
  parsed,         \* the parser's output for it
  config_file,    \* the contents of config.json
  settings,       \* Config.settings
  config_state,   \* whether Config() was constructed or raised, and the file it found
  root,           \* the Tk root: "created", in "mainloop", "destroyed", "exited"
  refresh_button, \* the state of the "Refresh Jobs" button
  after_queue,    \* the root.after(0, ...) callbacks Tk has not run yet
  auto_refresh_job, \* JobCrawler.auto_refresh_job: a timer id, 0 for None
  auto_refresh_var, \* the "Auto-refresh" check box
  timers,         \* the root.after(interval, ...) timers Tk holds pending
  fired,          \* history: the timers whose callback ran
  cancelled,      \* history: the timers after_cancel removed while pending
  writers,        \* history: the contexts that wrote current_jobs or filtered_jobs
  started         \* history: how many times refresh_jobs started a worker

limiterVars == <<min_delay, last_request, lock, wake, prev_request, calls>>
rateVars == <<limiterVars, pc, caller>>
cacheVars == <<cache_file, cache_duration, lastGet, lastPut, lastClear>>
fetchVars ==
  <<cached_jobs, attempts, response, status, transients, ret, raised, failures, putArgs>>
filterVars == <<current_jobs, filtered_jobs, lists, search_var>>
parseVars == <<document, parsed>>
configVars == <<config_file, settings, config_state>>
uiVars == <<root, refresh_button, after_queue, auto_refresh_job, auto_refresh_var,
           timers, fired, cancelled, writers, started>>
vars == <<clock, rateVars, cacheVars, fetchVars, filterVars, parseVars, configVars, uiVars>>

\* ------------------------------------------------------------- the cache
Absent == [kind |-> "absent", ts |-> 0, jobs |-> <<>>]
Entry(ts, jobs) == [kind |-> "entry", ts |-> ts, jobs |-> jobs]
\* Files that are not a pickled {'timestamp': datetime, 'jobs': list}:
\*   "empty"         zero bytes
\*   "truncated"     a pickle cut short
\*   "bad_import"    bytes that name a class that cannot be imported
\*   "not_mapping"   a pickled list
\*   "no_timestamp"  a pickled {'jobs': [...]}
\*   "no_jobs"       a pickled {'timestamp': datetime}
\*   "bad_timestamp" a pickled {'timestamp': 5, 'jobs': [...]}
CorruptKinds ==
  {"empty", "truncated", "bad_import", "not_mapping", "no_timestamp", "no_jobs", "bad_timestamp"}
Corrupt(kind, ts) == [kind |-> kind, ts |-> ts, jobs |-> <<>>]

\* What pickle.load, cache_data.get and the datetime subtraction raise.
LoadError(file) ==
  CASE file.kind = "empty" -> "EOFError"
    [] file.kind = "truncated" -> "UnpicklingError"
    [] file.kind = "bad_import" -> "ModuleNotFoundError"
    [] file.kind = "not_mapping" -> "AttributeError"
    [] file.kind = "bad_timestamp" -> "TypeError"
    [] OTHER -> "none"

\* A faulty variant of clear_cache: only a well-formed entry is removed.
ClearEntryOnly(file) == IF file.kind = "entry" THEN Absent ELSE file
\* if os.path.exists(self.cache_file): os.remove(self.cache_file)
clear_cache(file) == IF file.kind # "absent" THEN Absent ELSE file

\* The classes get_cached_jobs' except clause names.
GetHandler == {"PickleError", "KeyError", "TypeError"}

\* A faulty variant of the freshness test: an entry exactly cache_duration old is fresh.
IsFreshInclusive(cache_time, t, duration) == t - cache_time <= duration
IsFresh(cache_time, t, duration) == t - cache_time < duration

\* get_cached_jobs: its result, the exception that leaves it, the file after.
get_cached_jobs(file, t, duration) ==
  IF file.kind = "absent" THEN [result |-> None, exc |-> "none", file |-> file]
  ELSE IF LoadError(file) # "none"
  THEN IF Catches(GetHandler, LoadError(file))
       THEN [result |-> None, exc |-> "none", file |-> clear_cache(file)]
       ELSE [result |-> None, exc |-> LoadError(file), file |-> file]
  ELSE IF file.kind # "no_timestamp" /\ IsFresh(file.ts, t, duration)
  THEN [result |-> Some(file.jobs), exc |-> "none", file |-> file]
  ELSE [result |-> None, exc |-> "none", file |-> file]

\* How the write of cache_jobs ends: open() may fail, dump() may fail after
\* open(..., 'wb') has emptied the file.
WriteOutcomes == {"ok", "open_fails", "dump_fails"}

\* A faulty variant of cache_jobs: nothing reaches the file.
CacheJobsWritesNothing(file, jobs, t, write) == file
cache_jobs(file, jobs, t, write) ==
  CASE write = "ok" -> Entry(t, jobs)
    [] write = "open_fails" -> file
    [] write = "dump_fails" -> Corrupt("empty", 0)

NoGet == [valid |-> FALSE, pre |-> Absent, at |-> 0, exc |-> "none", result |-> None,
          post |-> Absent, put |-> [ok |-> FALSE, ts |-> 0, jobs |-> <<>>],
          cleared |-> [on |-> FALSE, from |-> "absent"]]
NoPut == [ok |-> FALSE, ts |-> 0, jobs |-> <<>>]
NoClear == [on |-> FALSE, from |-> "absent"]

\* The state of the cache an operation finds: no entry, fresh, stale, corrupt.
PriorState(file, t, duration) ==
  CASE file.kind = "absent" -> "absent"
    [] file.kind = "entry" -> IF t - file.ts < duration THEN "fresh" ELSE "stale"
    [] OTHER -> "corrupt"

\* ------------------------------------------------------- the rate limiter
\* A faulty variant of the sleep: the time already elapsed, not the time left.
SleepTimeElapsed(t_now, last, delay) == t_now - last
SleepTime(t_now, last, delay) == delay - (t_now - last)

\* A thread other than a fetch worker calls wait().
WaitCall(t) ==
  /\ pc[t] = "idle"
  /\ calls + Cardinality({u \in Threads : pc[u] # "idle"}) < MaxCalls
  /\ pc' = [pc EXCEPT ![t] = "lock"]
  /\ caller' = [caller EXCEPT ![t] = "wait"]
  /\ UNCHANGED <<clock, limiterVars, cacheVars, fetchVars, filterVars, parseVars, configVars, uiVars>>

\* with self.lock:
Acquire(t) ==
  /\ pc[t] = "lock"
  /\ lock = 0
  /\ lock' = t
  /\ pc' = [pc EXCEPT ![t] = "locked"]
  /\ UNCHANGED <<clock, min_delay, last_request, wake, prev_request, calls, caller,
                 cacheVars, fetchVars, filterVars, parseVars, configVars, uiVars>>

\* now = time.time(); the test; time.sleep(sleep_time) begins.
ReadNow(t) ==
  /\ pc[t] = "locked"
  /\ IF clock - last_request < min_delay
     THEN /\ wake' = [wake EXCEPT ![t] = clock + SleepTime(clock, last_request, min_delay)]
          /\ pc' = [pc EXCEPT ![t] = "sleeping"]
     ELSE /\ wake' = wake
          /\ pc' = [pc EXCEPT ![t] = "set"]
  /\ UNCHANGED <<clock, min_delay, last_request, lock, prev_request, calls, caller,
                 cacheVars, fetchVars, filterVars, parseVars, configVars, uiVars>>

\* time.sleep() returns: no sooner than asked.
SleepEnd(t) ==
  /\ pc[t] = "sleeping"
  /\ clock >= wake[t]
  /\ pc' = [pc EXCEPT ![t] = "set"]
  /\ wake' = [wake EXCEPT ![t] = 0]
  /\ UNCHANGED <<clock, min_delay, last_request, lock, prev_request, calls, caller,
                 cacheVars, fetchVars, filterVars, parseVars, configVars, uiVars>>

\* self.last_request = time.time(), and the with block releases the lock.
SetLast(t) ==
  /\ pc[t] = "set"
  /\ last_request' = clock
  /\ prev_request' = last_request
  /\ calls' = calls + 1
  /\ lock' = IF lock = t THEN 0 ELSE lock
  /\ pc' = [pc EXCEPT ![t] = IF caller[t] = "fetch" THEN "cache" ELSE "idle"]
  /\ UNCHANGED <<clock, min_delay, wake, caller,
                 cacheVars, fetchVars, filterVars, parseVars, configVars, uiVars>>

\* Time passes.
Tick ==
  /\ clock < MaxClock
  /\ clock' = clock + 1
  /\ UNCHANGED <<rateVars, cacheVars, fetchVars, filterVars, parseVars, configVars, uiVars>>

\* --------------------------------------------------------------- the fetch
\* The thread refresh_jobs starts to run fetch_latest_jobs.
Worker == 1

\* Retry(total=3, status_forcelist=[429, 500, 502, 503, 504])
RetryTotal == 3
status_forcelist == {429, 500, 502, 503, 504}

\* How one HTTP request of session.get() ends: an error, or a status.
HttpOutcomes ==
  {[exc |-> e, status |-> 0] : e \in {"ConnectionError", "ReadTimeout"}}
    \cup {[exc |-> "none", status |-> c] : c \in {200, 404} \cup status_forcelist}

Transient(outcome) == outcome.exc # "none" \/ outcome.status \in status_forcelist

\* A faulty variant of the retry budget: a failed request is never sent again.
NeverRetry(sent, outcome) == FALSE
\* Whether the adapter sends the request again after `sent` requests.
ShouldRetry(sent, outcome) == Transient(outcome) /\ sent <= RetryTotal

\* A faulty variant of the handlers below: only network errors are caught.
FetchHandlerNetworkOnly == {"RequestException"}
\* except requests.RequestException / except Exception
FetchHandler == {"RequestException", "Exception"}

\* An exception reaches fetch_latest_jobs' except clauses.
FetchExcept(exc, what) ==
  /\ failures' = failures \cup {what}
  /\ pc' = [pc EXCEPT ![Worker] = "done"]
  /\ IF Catches(FetchHandler, exc)
     THEN ret' = <<>> /\ raised' = FALSE
     ELSE ret' = ret /\ raised' = TRUE

FetchCall ==
  /\ pc[Worker] = "idle"
  /\ calls < MaxFetches
  /\ pc' = [pc EXCEPT ![Worker] = "lock"]
  /\ caller' = [caller EXCEPT ![Worker] = "fetch"]
  /\ UNCHANGED <<clock, limiterVars, cacheVars, fetchVars, filterVars, parseVars, configVars, uiVars>>

\* cached_jobs = self.cache.get_cached_jobs()
GetCache ==
  /\ pc[Worker] = "cache"
  /\ LET r == get_cached_jobs(cache_file, clock, cache_duration)
         healed == r.file # cache_file
     IN  /\ cache_file' = r.file
         /\ lastPut' = IF healed THEN NoPut ELSE lastPut
         /\ lastClear' = IF healed THEN [on |-> TRUE, from |-> "corrupt"] ELSE lastClear
         /\ lastGet' = [valid |-> TRUE, pre |-> cache_file, at |-> clock, exc |-> r.exc,
                        result |-> r.result, post |-> r.file, put |-> lastPut,
                        cleared |-> lastClear]
         /\ IF r.exc # "none"
            THEN /\ FetchExcept(r.exc, "cache_read_raised")
                 /\ cached_jobs' = cached_jobs
            ELSE /\ cached_jobs' = r.result
                 /\ pc' = [pc EXCEPT ![Worker] = "cached"]
                 /\ failures' = IF healed THEN failures \cup {"cache_read_healed"} ELSE failures
                 /\ UNCHANGED <<ret, raised>>
  /\ UNCHANGED <<clock, limiterVars, caller, cache_duration, attempts, response, status,
                 transients, putArgs, filterVars, parseVars, configVars, uiVars>>

\* if cached_jobs: return cached_jobs
UseCache ==
  /\ pc[Worker] = "cached"
  /\ IF Truthy(cached_jobs)
     THEN /\ ret' = cached_jobs.jobs
          /\ pc' = [pc EXCEPT ![Worker] = "done"]
     ELSE /\ ret' = ret
          /\ pc' = [pc EXCEPT ![Worker] = "http"]
  /\ UNCHANGED <<clock, limiterVars, caller, cacheVars, cached_jobs, attempts, response,
                 status, transients, raised, failures, putArgs, filterVars, parseVars,
                 configVars, uiVars>>

\* One request of self.session.get(...), then response.raise_for_status().
HttpAttempt ==
  /\ pc[Worker] = "http"
  /\ attempts' = attempts + 1
  /\ \E outcome \in HttpOutcomes :
       /\ transients' = IF Transient(outcome) THEN transients + 1 ELSE transients
       /\ IF ShouldRetry(attempts + 1, outcome)
          THEN UNCHANGED <<pc, response, status, ret, raised, failures>>
          ELSE IF Transient(outcome)
          THEN /\ FetchExcept(IF outcome.exc # "none" THEN "ConnectionError" ELSE "RetryError",
                              "network")
               /\ UNCHANGED <<response, status>>
          ELSE IF outcome.status >= 400
          THEN /\ FetchExcept("HTTPError", "network")
               /\ status' = outcome.status
               /\ response' = response
          ELSE /\ \E body \in Bodies : response' = body
               /\ status' = outcome.status
               /\ pc' = [pc EXCEPT ![Worker] = "parse"]
               /\ UNCHANGED <<ret, raised, failures>>
  /\ UNCHANGED <<clock, limiterVars, caller, cacheVars, cached_jobs, putArgs,
                 filterVars, parseVars, configVars, uiVars>>

\* find_all('div', class_='job-item'), the loop over parse_job_item,
\* self.cache.cache_jobs(jobs), return jobs.
ParseResponse ==
  /\ pc[Worker] = "parse"
  /\ pc' = [pc EXCEPT ![Worker] = "done"]
  /\ IF response = <<>>
     THEN /\ ret' = <<>>
          /\ UNCHANGED <<cache_file, lastPut, lastClear, failures, putArgs>>
     ELSE LET jobs == ParseItems(response, 1)
          IN  \E write \in WriteOutcomes :
                /\ cache_file' = cache_jobs(cache_file, jobs, clock, write)
                /\ lastPut' = IF write = "ok" THEN [ok |-> TRUE, ts |-> clock, jobs |-> jobs] ELSE NoPut
                /\ lastClear' = NoClear
                /\ failures' = IF write = "ok" THEN failures ELSE failures \cup {"cache_write"}
                /\ putArgs' = Some(jobs)
                /\ ret' = jobs
  /\ UNCHANGED <<clock, limiterVars, caller, cache_duration, lastGet, cached_jobs, attempts,
                 response, status, transients, raised, filterVars, parseVars, configVars, uiVars>>

\* The worker is done with the result; the next refresh may start.
FetchReturn ==
  /\ pc[Worker] = "done"
  /\ pc' = [pc EXCEPT ![Worker] = "idle"]
  /\ cached_jobs' = None
  /\ attempts' = 0
  /\ response' = <<>>
  /\ status' = 0
  /\ transients' = 0
  /\ ret' = <<>>
  /\ raised' = FALSE
  /\ failures' = {}
  /\ putArgs' = None
  /\ lastGet' = NoGet
  /\ UNCHANGED <<clock, limiterVars, caller, cache_file, cache_duration, lastPut, lastClear,
                 filterVars, parseVars, configVars, uiVars>>

\* The "Clear Cache" button: JobCrawler.clear_cache -> JobCache.clear_cache.
ClearCacheButton ==
  /\ cache_file' = clear_cache(cache_file)
  /\ lastClear' = [on |-> TRUE, from |-> PriorState(cache_file, clock, cache_duration)]
  /\ lastPut' = NoPut
  /\ UNCHANGED <<clock, rateVars, cache_duration, lastGet, fetchVars,
                 filterVars, parseVars, configVars, uiVars>>

\* ------------------------------------------------------- initial states
\* What an earlier run may have left in job_cache.pkl.
CachedSamples == {ParseItems(body, 1) : body \in Bodies \ {<<>>}}
InitialFiles ==
  {Absent}
    \cup {Entry(ts, jobs) : ts \in 0 .. Epoch, jobs \in CachedSamples}
    \cup {Corrupt(kind, Epoch) : kind \in CorruptKinds}

\* RateLimiter.__init__, before any thread runs.
InitLimiter ==
  /\ clock = Epoch
  /\ min_delay \in 0 .. MaxDelay
  /\ last_request = 0
  /\ lock = 0
  /\ pc = [t \in Threads |-> "idle"]
  /\ wake = [t \in Threads |-> 0]
  /\ caller = [t \in Threads |-> "wait"]
  /\ prev_request = 0
  /\ calls = 0

InitFetch ==
  /\ cached_jobs = None
  /\ attempts = 0
  /\ response = <<>>
  /\ status = 0
  /\ transients = 0
  /\ ret = <<>>
  /\ raised = FALSE
  /\ failures = {}
  /\ putArgs = None
  /\ lastGet = NoGet
  /\ lastPut = NoPut
  /\ lastClear = NoClear

\* The parts a specification does not exercise stay as constructed.
IdleCache == cache_file = Absent /\ cache_duration = 0
IdleFilter ==
  /\ current_jobs = 1
  /\ filtered_jobs = 2
  /\ lists = [i \in 1 .. 3 |-> <<>>]
  /\ search_var = <<>>

NotParsed == [done |-> FALSE, jobs |-> <<>>]
IdleParse == document = <<>> /\ parsed = NotParsed
NotConstructed == [phase |-> "new", found |-> [kind |-> "absent", map |-> <<>>]]
IdleConfig ==
  /\ config_file = [kind |-> "absent", map |-> <<>>]
  /\ settings = <<>>
  /\ config_state = NotConstructed

IdleUi ==
  /\ root = "created"
  /\ refresh_button = "normal"
  /\ after_queue = <<>>
  /\ auto_refresh_job = 0
  /\ auto_refresh_var = FALSE
  /\ timers = {}
  /\ fired = {}
  /\ cancelled = {}
  /\ writers = {}
  /\ started = 0

\* JobCrawler.__init__ with whatever job_cache.pkl an earlier run left.
Init ==
  /\ InitLimiter
  /\ InitFetch
  /\ cache_file \in InitialFiles
  /\ cache_duration \in 0 .. MaxDuration
  /\ IdleFilter /\ IdleParse /\ IdleConfig /\ IdleUi

\* One worker fetches again and again while the user may clear the cache.
Next ==
  \/ FetchCall
  \/ \E t \in Threads : Acquire(t)
  \/ \E t \in Threads : ReadNow(t)
  \/ \E t \in Threads : SleepEnd(t)
  \/ \E t \in Threads : SetLast(t)
  \/ GetCache
  \/ UseCache
  \/ HttpAttempt
  \/ ParseResponse
  \/ FetchReturn
  \/ ClearCacheButton
  \/ Tick

Spec == Init /\ [][Next]_vars

\* Threads that call RateLimiter.wait() concurrently.
InitRate ==
  InitLimiter /\ InitFetch /\ IdleCache /\ IdleFilter /\ IdleParse /\ IdleConfig /\ IdleUi

NextRate ==
  \/ \E t \in Threads : WaitCall(t)
  \/ \E t \in Threads : Acquire(t)
  \/ \E t \in Threads : ReadNow(t)
  \/ \E t \in Threads : SleepEnd(t)
  \/ \E t \in Threads : SetLast(t)
  \/ Tick

SpecRate == InitRate /\ [][NextRate]_vars

\* -------------------------------------------------------------- the filter
\* Strings of the filter are sequences of characters.
Chars == {"a", "A", "b", "B"}

\* str.lower(), character by character.
LowerChar(c) ==
  CASE c = "A" -> "a"
    [] c = "B" -> "b"
    [] OTHER -> c
Lower(str) == [i \in 1 .. Len(str) |-> LowerChar(str[i])]

\* Python's "needle in haystack" on strings.
Contains(needle, haystack) ==
  \E off \in 0 .. Len(haystack) - Len(needle) :
    \A k \in 1 .. Len(needle) : haystack[off + k] = needle[k]

\* A faulty variant of the test below: every field must match.
MatchesAllFields(job, search_term) ==
  /\ Contains(search_term, Lower(job.title))
  /\ Contains(search_term, Lower(job.location))
  /\ Contains(search_term, Lower(job.employer))
\* The condition of the list comprehension in apply_filters.
Matches(job, search_term) ==
  \/ Contains(search_term, Lower(job.title))
  \/ Contains(search_term, Lower(job.location))
  \/ Contains(search_term, Lower(job.employer))

\* [job for job in self.current_jobs if ...]
RECURSIVE Comprehension(_, _, _)
Comprehension(jobs, i, search_term) ==
  IF i > Len(jobs) THEN <<>>
  ELSE (IF Matches(jobs[i], search_term) THEN <<jobs[i]>> ELSE <<>>)
         \o Comprehension(jobs, i + 1, search_term)

\* The list apply_filters builds: the comprehension, or current_jobs.copy().
FilteredList(jobs, text) ==
  LET search_term == Lower(text)
  IN  IF search_term # <<>> THEN Comprehension(jobs, 1, search_term) ELSE jobs

\* List objects live in three slots; a new list takes a slot no live
\* reference points to.
Slots == 1 .. 3
NewSlot(live) == CHOOSE i \in Slots : i \notin live

\* apply_filters, with current_jobs already `cur` and the search box `text`:
\* filtered_jobs becomes a new list object in both branches.
apply_filters(cur, jobs, text) ==
  LET new == NewSlot({cur})
  IN  /\ filtered_jobs' = new
      /\ lists' = [i \in Slots |-> IF i = cur THEN jobs
                                   ELSE IF i = new THEN FilteredList(jobs, text)
                                   ELSE <<>>]

\* The records the filter model draws from, and the texts typed.
FilterRecord(t, l, e) == [title |-> t, location |-> l, employer |-> e]
FilterRecords ==
  { FilterRecord(<<"A", "b">>, <<"a">>, <<"B">>),
    FilterRecord(<<"b">>, <<>>, <<"b", "B">>),
    FilterRecord(<<"b">>, <<"A">>, <<>>),
    FilterRecord(<<"A", "b">>, <<>>, <<>>) }
RECURSIVE SeqsUpTo(_, _)
SeqsUpTo(S, n) ==
  IF n = 0 THEN {<<>>}
  ELSE LET shorter == SeqsUpTo(S, n - 1)
       IN  shorter \cup {Append(q, x) : q \in shorter, x \in S}
Queries == SeqsUpTo(Chars, 2)

\* update_ui_with_jobs(jobs): the list a fetch returned becomes current_jobs.
UpdateUiWithJobs ==
  /\ \E jobs \in SeqsUpTo(FilterRecords, MaxJobs) :
       LET cur == NewSlot({current_jobs, filtered_jobs})
       IN  /\ current_jobs' = cur
           /\ apply_filters(cur, jobs, search_var)
  /\ UNCHANGED <<clock, rateVars, cacheVars, fetchVars, search_var, parseVars, configVars, uiVars>>

\* The search box changes: the StringVar's trace calls filter_jobs.
FilterJobs ==
  /\ \E text \in Queries :
       /\ search_var' = text
       /\ apply_filters(current_jobs, lists[current_jobs], text)
  /\ UNCHANGED <<clock, rateVars, cacheVars, fetchVars, current_jobs, parseVars, configVars, uiVars>>

InitFilter ==
  /\ clock = Epoch
  /\ InitLimiter /\ InitFetch /\ IdleCache /\ IdleFilter /\ IdleParse /\ IdleConfig /\ IdleUi
  /\ min_delay = 0

NextFilter == UpdateUiWithJobs \/ FilterJobs

SpecFilter == InitFilter /\ [][NextFilter]_vars

\* -------------------------------------------------------------- the parser
\* The child nodes the documents of the parser model are built from.
ParseNodes ==
  { H2("A"), H2Link("B", "/job"),
    Icon("flaticon-calendar"), Icon("flaticon-pin"),
    Text(" 01-01 "), Text(" "),
    Li("font-weight:bold", "Acme"), Li("", "ab"), Li("", "Corp") }
\* The documents of at most `containers` containers of at most `nodes` nodes.
Documents(nodes, containers) == SeqsUpTo(SeqsUpTo(ParseNodes, nodes), containers)

\* soup.find_all('div', class_='job-item') and the loop over parse_job_item.
ParseDocument ==
  /\ ~parsed.done
  /\ parsed' = [done |-> TRUE, jobs |-> ParseItems(document, 1)]
  /\ UNCHANGED <<clock, rateVars, cacheVars, fetchVars, filterVars, document, configVars, uiVars>>

InitParse ==
  /\ InitLimiter /\ InitFetch /\ IdleCache /\ IdleFilter /\ IdleConfig /\ IdleUi
  /\ min_delay = 0
  /\ document \in Documents(MaxNodes, MaxContainers)
  /\ parsed = NotParsed

NextParse == ParseDocument

SpecParse == InitParse /\ [][NextParse]_vars

\* ------------------------------------------------------------- the config
DefaultKeys ==
  {"refresh_interval", "max_jobs_display", "cache_duration", "request_delay", "timeout",
   "auto_refresh"}
default_config == [k \in DefaultKeys |-> "default"]

\* What config.json may hold: nothing, only white space, text that is not
\* JSON, a JSON value that is not an object, or an object with some of the
\* default keys and possibly one more.
JsonObject(keys) == [kind |-> "object", map |-> [k \in keys |-> "loaded"]]
ConfigFiles ==
  {[kind |-> k, map |-> <<>>] :
     k \in {"absent", "empty", "invalid", "array", "string", "number", "null"}}
    \cup {JsonObject(keys) : keys \in SUBSET (DefaultKeys \cup {"theme"})}

\* {**a, **b}
Merge(a, b) == [k \in DOMAIN a \cup DOMAIN b |-> IF k \in DOMAIN b THEN b[k] ELSE a[k]]

\* except (FileNotFoundError, json.JSONDecodeError, ValueError)
LoadHandler == {"FileNotFoundError", "JSONDecodeError", "ValueError"}

\* What the body of load_config's try raises for a file.
LoadConfigError(file) ==
  CASE file.kind = "absent" -> "FileNotFoundError"
    [] file.kind = "invalid" -> "JSONDecodeError"
    [] file.kind \in {"array", "string", "number", "null"} -> "TypeError"
    [] OTHER -> "none"

\* load_config: the settings, and the exception that leaves it.
load_config(file) ==
  IF file.kind = "empty" THEN [settings |-> default_config, exc |-> "none"]
  ELSE IF LoadConfigError(file) = "none"
  THEN [settings |-> Merge(default_config, file.map), exc |-> "none"]
  ELSE IF Catches(LoadHandler, LoadConfigError(file))
  THEN [settings |-> default_config, exc |-> "none"]
  ELSE [settings |-> <<>>, exc |-> LoadConfigError(file)]

\* save_config: json.dump of the settings; a failed write is printed.
save_config(file, values, written) ==
  IF written THEN [kind |-> "object", map |-> values] ELSE file

\* Config.__init__: load_config, then save_config.
ConstructConfig ==
  /\ config_state.phase = "new"
  /\ LET loaded == load_config(config_file)
     IN  IF loaded.exc # "none"
         THEN /\ config_state' = [phase |-> "raised", found |-> config_file]
              /\ UNCHANGED <<config_file, settings>>
         ELSE /\ config_state' = [phase |-> "constructed", found |-> config_file]
              /\ settings' = loaded.settings
              /\ \E written \in BOOLEAN :
                   config_file' = save_config(config_file, loaded.settings, written)
  /\ UNCHANGED <<clock, rateVars, cacheVars, fetchVars, filterVars, parseVars, uiVars>>

InitConfig ==
  /\ InitLimiter /\ InitFetch /\ IdleCache /\ IdleFilter /\ IdleParse /\ IdleUi
  /\ min_delay = 0
  /\ config_file \in ConfigFiles
  /\ settings = <<>>
  /\ config_state = NotConstructed

NextConfig == ConstructConfig

SpecConfig == InitConfig /\ [][NextConfig]_vars

\* ------------------------------------------------------- the user interface
\* The Tk main loop runs one callback at a time, to its end: a step of the
\* primary context is one whole callback.  A refresh worker is a thread of
\* its own; its steps are its calls into Tk; fetch_latest_jobs returns
\* any of FetchResults here.  The callbacks a worker registers for
\* the status label and the progress bar touch neither the records, the
\* button nor the timers and are left out.
MaxRefreshes == 2
MaxTimers == 2

FetchResults ==
  { <<>>,
    <<FilterRecord(<<"A", "b">>, <<"a">>, <<"B">>), FilterRecord(<<"b">>, <<>>, <<"b", "B">>)>> }
SearchTexts == {<<>>, <<"A">>}

\* The workers whose fetch has not handed its result over yet.
InFlight == {t \in Threads : pc[t] \in {"start", "fetch"}}

\* refresh_jobs: thread = threading.Thread(target=worker); thread.start()
CanStart == started < MaxRefreshes /\ \E t \in Threads : pc[t] = "idle"
refresh_jobs ==
  LET t == CHOOSE u \in Threads : pc[u] = "idle"
  IN  /\ pc' = [pc EXCEPT ![t] = "start"]
      /\ started' = started + 1

\* The id root.after(interval, ...) returns: one Tk has not handed out before.
CanSchedule == Cardinality(fired \cup cancelled \cup timers) < MaxTimers
NewTimer == Cardinality(fired \cup cancelled \cup timers) + 1

\* A faulty variant of cancel_auto_refresh: the reference is dropped and the
\* timer is left with Tk.
CancelDropsReference(job, pending) == [job |-> 0, timers |-> pending]
\* cancel_auto_refresh: after_cancel takes a pending timer from Tk and does
\* nothing for one that has fired.
cancel_auto_refresh(job, pending) ==
  IF job # 0 THEN [job |-> 0, timers |-> pending \ {job}]
  ELSE [job |-> job, timers |-> pending]

\* setup_auto_refresh, with the setting `enabled`.
setup_auto_refresh(enabled, job, pending) ==
  IF ~enabled THEN [job |-> job, timers |-> pending]
  ELSE LET c == cancel_auto_refresh(job, pending)
       IN  [job |-> NewTimer, timers |-> c.timers \cup {NewTimer}]

\* The timers of `pending` that are gone from `after` were cancelled.
SetTimers(pending, after) ==
  /\ auto_refresh_job' = after.job
  /\ timers' = after.timers
  /\ cancelled' = cancelled \cup (pending \ after.timers)

\* self.config.save_config(); the write is taken to succeed here (a failed
\* write is printed and leaves the file, as in ConstructConfig).
SaveSettings(values) == config_file' = save_config(config_file, values, TRUE)

\* update_ui_with_jobs(jobs), run by the context ctx.
update_ui_with_jobs(ctx, new_jobs) ==
  LET cur == NewSlot({current_jobs, filtered_jobs})
  IN  /\ current_jobs' = cur
      /\ apply_filters(cur, new_jobs, search_var)
      /\ writers' = writers \cup {ctx}

\* initial_load, the last call of JobCrawler.__init__, then app.run().
InitialLoad ==
  /\ root = "created"
  /\ root' = "mainloop"
  /\ refresh_jobs
  /\ SetTimers(timers, IF settings["auto_refresh"]
                       THEN setup_auto_refresh(TRUE, auto_refresh_job, timers)
                       ELSE [job |-> auto_refresh_job, timers |-> timers])
  /\ UNCHANGED <<clock, limiterVars, caller, cacheVars, fetchVars, filterVars, parseVars,
                 configVars, refresh_button, after_queue, auto_refresh_var,
                 fired, writers>>

\* A click on "Refresh Jobs": a disabled button does not call its command.
ClickRefresh ==
  /\ root = "mainloop"
  /\ refresh_button = "normal"
  /\ CanStart
  /\ refresh_jobs
  /\ UNCHANGED <<clock, limiterVars, caller, cacheVars, fetchVars, filterVars, parseVars,
                 configVars, root, refresh_button, after_queue,
                 auto_refresh_job, auto_refresh_var, timers, fired, cancelled, writers>>

\* A pending timer fires: auto_refresh -> refresh_jobs, setup_auto_refresh.
TimerFires ==
  /\ root = "mainloop"
  /\ CanStart /\ CanSchedule
  /\ \E id \in timers :
       /\ fired' = fired \cup {id}
       /\ SetTimers(timers \ {id},
                    setup_auto_refresh(settings["auto_refresh"], auto_refresh_job,
                                       timers \ {id}))
  /\ refresh_jobs
  /\ UNCHANGED <<clock, limiterVars, caller, cacheVars, fetchVars, filterVars, parseVars,
                 configVars, root, refresh_button, after_queue,
                 auto_refresh_var, writers>>

\* A click on the "Auto-refresh" check box: toggle_auto_refresh.
ToggleAutoRefresh ==
  /\ root = "mainloop"
  /\ ~auto_refresh_var => CanSchedule
  /\ auto_refresh_var' = ~auto_refresh_var
  /\ settings' = [settings EXCEPT !["auto_refresh"] = ~auto_refresh_var]
  /\ SaveSettings(settings')
  /\ SetTimers(timers, IF ~auto_refresh_var
                       THEN setup_auto_refresh(TRUE, auto_refresh_job, timers)
                       ELSE cancel_auto_refresh(auto_refresh_job, timers))
  /\ UNCHANGED <<clock, rateVars, cacheVars, fetchVars, filterVars, parseVars, config_state,
                 root, refresh_button, after_queue, fired, writers, started>>

\* The search box changes while the window is up: filter_jobs.
SearchEdited ==
  /\ root = "mainloop"
  /\ \E text \in SearchTexts :
       /\ search_var' = text
       /\ apply_filters(current_jobs, lists[current_jobs], text)
  /\ writers' = writers \cup {"main"}
  /\ UNCHANGED <<clock, rateVars, cacheVars, fetchVars, current_jobs, parseVars, configVars,
                 root, refresh_button, after_queue, auto_refresh_job,
                 auto_refresh_var, timers, fired, cancelled, started>>

\* The main loop runs the oldest root.after(0, ...) callback.
RunAfter ==
  /\ root = "mainloop"
  /\ after_queue # <<>>
  /\ after_queue' = Tail(after_queue)
  /\ LET callback == Head(after_queue)
     IN  CASE callback.call = "update_ui_with_jobs" ->
                /\ update_ui_with_jobs("main", callback.jobs)
                /\ UNCHANGED refresh_button
           [] OTHER ->
                /\ refresh_button' = callback.call
                /\ UNCHANGED <<current_jobs, filtered_jobs, lists, writers>>
  /\ UNCHANGED <<clock, rateVars, cacheVars, fetchVars, search_var, parseVars, configVars,
                 root, auto_refresh_job, auto_refresh_var, timers, fired,
                 cancelled, started>>

\* on_closing, called for WM_DELETE_WINDOW or when mainloop() is interrupted;
\* root.destroy() drops the callbacks Tk has not run.
OnClosing ==
  /\ root = "mainloop"
  /\ SetTimers(timers, cancel_auto_refresh(auto_refresh_job, timers))
  /\ SaveSettings(settings)
  /\ root' = "destroyed"
  /\ after_queue' = <<>>
  /\ UNCHANGED <<clock, rateVars, cacheVars, fetchVars, filterVars, parseVars, settings,
                 config_state, refresh_button, auto_refresh_var, fired, writers, started>>

\* run()'s finally calls on_closing once more after the window is gone.
RunExit ==
  /\ root = "destroyed"
  /\ SetTimers(timers, cancel_auto_refresh(auto_refresh_job, timers))
  /\ SaveSettings(settings)
  /\ root' = "exited"
  /\ UNCHANGED <<clock, rateVars, cacheVars, fetchVars, filterVars, parseVars, settings,
                 config_state, refresh_button, after_queue, auto_refresh_var,
                 fired, writers, started>>

\* A callback registered from a worker thread is put in Tk's queue.
Register(call, new_jobs) ==
  after_queue' = Append(after_queue, [call |-> call, jobs |-> new_jobs])

\* worker: self.root.after(0, lambda: self.refresh_button.config(state="disabled"))
WorkerDisable(t) ==
  /\ pc[t] = "start"
  /\ root = "mainloop"
  /\ Register("disabled", <<>>)
  /\ pc' = [pc EXCEPT ![t] = "fetch"]
  /\ UNCHANGED <<clock, limiterVars, caller, cacheVars, fetchVars, filterVars, parseVars,
                 configVars, root, refresh_button, auto_refresh_job,
                 auto_refresh_var, timers, fired, cancelled, writers, started>>

\* A faulty variant of the hand-over: the worker calls update_ui_with_jobs itself.
WorkerUpdatesDirectly(t) ==
  /\ pc[t] = "fetch"
  /\ root = "mainloop"
  /\ \E result \in FetchResults : update_ui_with_jobs("worker", result)
  /\ pc' = [pc EXCEPT ![t] = "finally"]
  /\ UNCHANGED <<clock, limiterVars, caller, cacheVars, fetchVars, search_var, parseVars,
                 configVars, root, refresh_button, after_queue,
                 auto_refresh_job, auto_refresh_var, timers, fired, cancelled, started>>
\* worker: jobs = self.fetch_latest_jobs()
\*         self.root.after(0, self.update_ui_with_jobs, jobs)
WorkerHandOff(t) ==
  /\ pc[t] = "fetch"
  /\ root = "mainloop"
  /\ \E result \in FetchResults : Register("update_ui_with_jobs", result)
  /\ pc' = [pc EXCEPT ![t] = "finally"]
  /\ UNCHANGED <<clock, limiterVars, caller, cacheVars, fetchVars, filterVars, parseVars,
                 configVars, root, refresh_button, auto_refresh_job,
                 auto_refresh_var, timers, fired, cancelled, writers, started>>

\* worker, finally: self.root.after(0, lambda: self.refresh_button.config(state="normal"))
WorkerFinally(t) ==
  /\ pc[t] = "finally"
  /\ root = "mainloop"
  /\ Register("normal", <<>>)
  /\ pc' = [pc EXCEPT ![t] = "idle"]
  /\ UNCHANGED <<clock, limiterVars, caller, cacheVars, fetchVars, filterVars, parseVars,
                 configVars, root, refresh_button, auto_refresh_job, auto_refresh_var,
                 timers, fired, cancelled, writers, started>>

\* root.after raises in a worker once the window is gone: the except clause
\* and the finally clause raise the same way and the thread ends.
WorkerDies(t) ==
  /\ pc[t] \in {"start", "fetch", "finally"}
  /\ root \in {"destroyed", "exited"}
  /\ pc' = [pc EXCEPT ![t] = "idle"]
  /\ UNCHANGED <<clock, limiterVars, caller, cacheVars, fetchVars, filterVars, parseVars,
                 configVars, root, refresh_button, after_queue, auto_refresh_job,
                 auto_refresh_var, timers, fired, cancelled, writers, started>>

\* JobCrawler.__init__ up to create_ui: the settings are loaded and saved,
\* the check box shows the setting, no worker runs and no timer is pending.
InitUi ==
  /\ InitLimiter /\ InitFetch /\ IdleCache /\ IdleFilter /\ IdleParse
  /\ min_delay = 0
  /\ \E enabled \in BOOLEAN :
       /\ settings = [default_config EXCEPT !["auto_refresh"] = enabled]
       /\ auto_refresh_var = enabled
  /\ config_file = [kind |-> "object", map |-> settings]
  /\ config_state = [phase |-> "constructed", found |-> config_file]
  /\ root = "created"
  /\ refresh_button = "normal"
  /\ after_queue = <<>>
  /\ auto_refresh_job = 0
  /\ timers = {}
  /\ fired = {}
  /\ cancelled = {}
  /\ writers = {}
  /\ started = 0

NextUi ==
  \/ InitialLoad
  \/ ClickRefresh
  \/ TimerFires
  \/ ToggleAutoRefresh
  \/ SearchEdited
  \/ RunAfter
  \/ OnClosing
  \/ RunExit
  \/ \E t \in Threads : WorkerDisable(t)
  \/ \E t \in Threads : WorkerHandOff(t)
  \/ \E t \in Threads : WorkerFinally(t)
  \/ \E t \in Threads : WorkerDies(t)

SpecUi == InitUi /\ [][NextUi]_vars

\* ------------------------------------------------------------------ claims
JobFields == {"title", "url", "date", "location", "employer"}
IsRecordSequence(jobs) ==
  /\ DOMAIN jobs = 1 .. Len(jobs)
  /\ \A i \in 1 .. Len(jobs) : DOMAIN jobs[i] = JobFields

\* The containers of a document that hold an h2.
Titled(doc) == {c \in 1 .. Len(doc) : \E k \in 1 .. Len(doc[c]) : doc[c][k].tag = "h2"}

\* C1, as stated: fetch_latest_jobs never raises, and whenever the network,
\* the parser or the cache failed during the call it returns the empty sequence.
C1_EveryFailureYieldsEmpty ==
  pc[Worker] = "done" => ~raised /\ (failures # {} => ret = <<>>)

\* C1, amended: fetch_latest_jobs never raises and always returns a record
\* sequence; it returns the empty sequence whenever the HTTP request failed or
\* the cache read raised an error get_cached_jobs does not catch; a corrupt
\* entry that get_cached_jobs removed, or a failed cache write, does not empty
\* the result: the records parsed from the response are returned.
C1_FetchNeverRaises ==
  pc[Worker] = "done" =>
    /\ ~raised
    /\ IsRecordSequence(ret)
    /\ failures \cap {"network", "cache_read_raised"} # {} => ret = <<>>
    /\ (failures \subseteq {"cache_read_healed", "cache_write"} /\ status = 200)
         => Len(ret) = Cardinality(Titled(response))

\* C1's case: an error of the cache read reached fetch's handlers and the
\* call returned the empty sequence.
C1_Witness ==
  pc[Worker] = "done" /\ "cache_read_raised" \in failures /\ ~raised /\ ret = <<>>

\* C2: a fetch that finds a fresh cache entry returns exactly the cached
\* sequence, the empty one included, sends no HTTP request, and has called
\* the rate limiter's wait() before it consulted the cache.
C2_FreshEntryServedWithoutHttp ==
  (pc[Worker] = "done" /\ lastGet.valid
     /\ PriorState(lastGet.pre, lastGet.at, cache_duration) = "fresh")
    => ret = lastGet.pre.jobs /\ attempts = 0 /\ calls >= 1

\* C3: a get_cached_jobs that follows a cache_jobs(records) returns records
\* unchanged while less than cache_duration has elapsed since the put, and
\* None once cache_duration or more has elapsed.
C3_GetAfterPut ==
  (lastGet.valid /\ lastGet.put.ok) =>
    /\ lastGet.exc = "none"
    /\ lastGet.result = IF lastGet.at - lastGet.put.ts < cache_duration
                        THEN Some(lastGet.put.jobs) ELSE None

\* C3's case: a put of a non-empty sequence, then a get within cache_duration.
C3_Witness ==
  /\ lastGet.valid /\ lastGet.put.ok /\ lastGet.put.jobs # <<>>
  /\ lastGet.at - lastGet.put.ts < cache_duration
  /\ lastGet.result = Some(lastGet.put.jobs)

C5_CorruptEntrySelfHeals ==
  (lastGet.valid /\ lastGet.pre.kind \in CorruptKinds) =>
    lastGet.exc = "none" /\ lastGet.result = None /\ lastGet.post = Absent

\* The threads inside wait()'s "with self.lock:" block.
InCritical == {t \in Threads : pc[t] \in {"locked", "sleeping", "set"}}

\* C6: whatever the interleaving of the threads calling wait(), each value
\* written to last_request is at least min_delay after the one before, and
\* only the one thread that holds the lock is between reading and writing it.
C6_GrantsSpacedByMinDelay ==
  /\ calls >= 2 => last_request - prev_request >= min_delay
  /\ Cardinality(InCritical) <= 1
  /\ \A t \in InCritical : lock = t

\* C6's case: two calls were let through exactly min_delay apart while
\* another thread waits for the lock.
C6_Witness ==
  /\ min_delay > 0
  /\ calls >= 2
  /\ last_request - prev_request = min_delay
  /\ \E t \in Threads : pc[t] = "lock"

\* C7: one session.get sends at most 1 + 3 requests; when transient failures
\* are followed by a 200 within that budget, fetch returns the records of that
\* body (one per container with a title, not the empty sequence); when every
\* request fails transiently, fetch returns the empty sequence after the last.
C7_RetryWithinBudget ==
  /\ attempts <= RetryTotal + 1
  /\ (pc[Worker] = "done" /\ status = 200) =>
       /\ transients = attempts - 1
       /\ ~Truthy(cached_jobs)
       /\ Len(ret) = Cardinality(Titled(response))
  /\ (pc[Worker] = "done" /\ attempts > 0 /\ status = 0) =>
       transients = RetryTotal + 1 /\ attempts = RetryTotal + 1 /\ ret = <<>>

\* C7's case: a 503-like failure, then a 200 whose body holds postings.
C7_Witness ==
  /\ pc[Worker] = "done" /\ transients = 1 /\ attempts = 2 /\ status = 200
  /\ ret # <<>>

\* Two characters that differ at most in case.
SameLetter(c, d) == c = d \/ {c, d} \in {{"a", "A"}, {"b", "B"}}
\* `text` occurs in `field`, case ignored.
OccursIn(text, field) ==
  \E off \in 0 .. Len(field) - Len(text) :
    \A k \in 1 .. Len(text) : SameLetter(field[off + k], text[k])
MatchesQuery(job) ==
  OccursIn(search_var, job.title) \/ OccursIn(search_var, job.location)
    \/ OccursIn(search_var, job.employer)

\* C8: the filtered view is the order-preserving subsequence of the canonical
\* records whose title, location or employer contains the query, case
\* ignored; for the empty query it is all of them, in order, and it is a list
\* object other than the canonical one.
C8_FilterIsMatchingSubsequence ==
  /\ lists[filtered_jobs] = SelectSeq(lists[current_jobs], MatchesQuery)
  /\ search_var = <<>> => lists[filtered_jobs] = lists[current_jobs]
  /\ filtered_jobs # current_jobs

\* C8's case: an upper-case query keeps one of two records and drops the other.
C8_Witness ==
  /\ search_var = <<"A">>
  /\ Len(lists[current_jobs]) = 2
  /\ lists[filtered_jobs] = <<lists[current_jobs][2]>>

\* The record the parser produced for titled container c of the document.
Rank(doc, c) == Cardinality({d \in Titled(doc) : d <= c})
HasIcon(item, cls) == \E k \in 1 .. Len(item) : item[k].tag = "i" /\ item[k].attr = cls

\* C9: the parser yields one record per container with a title, in document
\* order; a container with a title and no date marker gets date "N/A"; and
\* the record of a container is the one it gets without its siblings.
C9_ContainersParsedInIsolation ==
  parsed.done =>
    /\ Len(parsed.jobs) = Cardinality(Titled(document))
    /\ \A c \in Titled(document) :
         /\ ~HasIcon(document[c], "flaticon-calendar")
              => parsed.jobs[Rank(document, c)].date = "N/A"
         /\ parsed.jobs[Rank(document, c)] = parse_job_item(<<document[c]>>, 1).job

\* C10: whatever config.json holds, Config() does not raise; its settings hold
\* every default key, with the file's value where the file is an object that
\* has the key and the default otherwise; and the settings are written back
\* (unless the write itself failed, which leaves the file as it was).
C10_ConfigAlwaysConstructs ==
  config_state.phase # "new" =>
    LET found == config_state.found
    IN  /\ config_state.phase = "constructed"
        /\ DefaultKeys \subseteq DOMAIN settings
        /\ \A k \in DefaultKeys :
             settings[k] = IF found.kind = "object" /\ k \in DOMAIN found.map
                           THEN found.map[k] ELSE default_config[k]
        /\ config_file \in {found, [kind |-> "object", map |-> settings]}

\* C11: whatever the interleaving of clicks on "Refresh Jobs", the initial
\* load and the firings of the auto-refresh timer, at most one refresh worker
\* has a fetch outstanding: no worker is started while another has one.
C11_AtMostOneFetchInFlight == Cardinality(InFlight) <= 1

C13_RecordsWrittenInMainLoopOnly ==
  /\ writers \subseteq {"main"}
  /\ \A t \in Threads : pc[t] = "finally" /\ writers = {} => lists[current_jobs] = <<>>
  /\ lists[filtered_jobs] = FilteredList(lists[current_jobs], search_var)
  /\ filtered_jobs # current_jobs

\* C13's case: while one worker's result was applied by the main loop and
\* filtered, the result of a second worker waits in the queue.
C13_Witness ==
  /\ writers = {"main"}
  /\ search_var = <<"A">>
  /\ Len(lists[current_jobs]) = 2 /\ Len(lists[filtered_jobs]) = 1
  /\ \E i \in 1 .. Len(after_queue) :
       after_queue[i].call = "update_ui_with_jobs" /\ after_queue[i].jobs = <<>>

\* C14: Tk holds at most one auto-refresh timer, the one auto_refresh_job
\* names; it holds none while the auto_refresh setting is false or after the
\* window was closed; and no timer that was cancelled has fired.
C14_AtMostOnePendingTimer ==
  /\ Cardinality(timers) <= 1
  /\ timers \subseteq {auto_refresh_job}
  /\ ~settings["auto_refresh"] => timers = {}
  /\ root \in {"destroyed", "exited"} => timers = {}
  /\ fired \cap cancelled = {}

\* C14's case: one timer fired and scheduled the next, which was cancelled
\* by closing the window.
C14_Witness ==
  /\ root = "destroyed"
  /\ Cardinality(fired) = 1
  /\ Cardinality(cancelled) = 1
  /\ auto_refresh_job = 0
  /\ timers = {}

====
